---- MODULE Spec2Model ----
(***************************************************************************)
(* Model of aurora-cli-rs `src/cli/solidity.rs`: the `Solidity::abi_encode` *)
(* command (UnaryCall and CallArgsByName), `read_arg`, and the recursive   *)
(* type-directed token parser `parse_arg` / `parse_array`.                 *)
(*                                                                         *)
(* Text is modelled by TLA+ strings over the ASCII alphabet below; a       *)
(* character is a string of length one.  The library routines the source   *)
(* calls (hex::decode, Address::decode, U256::from_dec_str,                *)
(* serde_json::from_str / to_string, str::trim, str::to_lowercase) are     *)
(* modelled by what they compute on such text.                             *)
(***************************************************************************)
EXTENDS Integers, Sequences, FiniteSets, TLC

(***************************************************************************)
(* Characters                                                              *)
(***************************************************************************)

\* The i-th character of s, or "" when i is outside s.
Ch(s, i) == IF i >= 1 /\ i <= Len(s) THEN SubSeq(s, i, i) ELSE ""

Digits == "0123456789"
LowerHex == "abcdef"
UpperHex == "ABCDEF"
Upper == "ABCDEFGHIJKLMNOPQRSTUVWXYZ"
Lower == "abcdefghijklmnopqrstuvwxyz"

\* The characters of the model's text, in ASCII order (used to order keys):
\* tab, LF, FF, CR and printable ASCII except the backquote.
Alphabet == "\t\n\f\r !\"#$%&'()*+,-./0123456789:;<=>?@ABCDEFGHIJKLMNOPQRSTUVWXYZ[\\]^_abcdefghijklmnopqrstuvwxyz{|}~"

\* Least element of a non-empty set of integers.
MinOf(S) == CHOOSE i \in S : \A j \in S : i <= j

\* Greatest element of a non-empty set of integers.
MaxOf(S) == CHOOSE i \in S : \A j \in S : i >= j

\* Position of character c in string set, 0 when absent.
IndexOf(set, c) ==
    LET at == {i \in 1..Len(set) : SubSeq(set, i, i) = c}
    IN IF Len(c) # 1 \/ at = {} THEN 0 ELSE MinOf(at)

\* The byte of a character: its rank in the alphabet (order-preserving).
Code(c) == IndexOf(Alphabet, c)

IsDigit(c) == IndexOf(Digits, c) > 0

\* b'0'..b'9' -> 0..9
DigitVal(c) == IndexOf(Digits, c) - 1

\* char::is_whitespace, on the model's alphabet
IsWhitespace(c) == c \in {" ", "\t", "\n", "\r", "\f"}

\* str::trim: the slice between the first and the last non-whitespace
\* character, empty when there is none.
Trim(s) ==
    LET keep == {i \in 1..Len(s) : ~IsWhitespace(Ch(s, i))}
    IN IF keep = {} THEN "" ELSE SubSeq(s, MinOf(keep), MaxOf(keep))

\* char::to_lowercase, on the model's alphabet
LowerChar(c) ==
    LET u == IndexOf(Upper, c) IN IF u > 0 THEN SubSeq(Lower, u, u) ELSE c

\* str::to_lowercase: every character lowered, in order (computed by halves).
RECURSIVE ToLowercase(_)
ToLowercase(s) ==
    IF Len(s) = 0 THEN ""
    ELSE IF Len(s) = 1 THEN LowerChar(s)
    ELSE LET h == Len(s) \div 2
         IN ToLowercase(SubSeq(s, 1, h)) \o ToLowercase(SubSeq(s, h + 1, Len(s)))

(***************************************************************************)
(* hex::decode and Address::decode                                         *)
(***************************************************************************)

\* Value of a hex digit (either case), -1 when c is not one.
HexVal(c) ==
    IF IndexOf(Digits, c) > 0 THEN IndexOf(Digits, c) - 1
    ELSE IF IndexOf(LowerHex, c) > 0 THEN 9 + IndexOf(LowerHex, c)
    ELSE IF IndexOf(UpperHex, c) > 0 THEN 9 + IndexOf(UpperHex, c)
    ELSE -1

\* The bytes of an even-length string of hex digits, one per pair.
HexBytes(s) ==
    [k \in 1..(Len(s) \div 2) |-> 16 * HexVal(Ch(s, 2 * k - 1)) + HexVal(Ch(s, 2 * k))]

AllHex(s) == \A i \in 1..Len(s) : HexVal(Ch(s, i)) >= 0

\* hex::decode: odd length and non-hex characters are errors; no "0x" prefix.
HexDecode(s) ==
    IF Len(s) % 2 # 0 THEN [ok |-> FALSE, bytes |-> <<>>, err |-> "Odd number of digits"]
    ELSE IF ~AllHex(s) THEN [ok |-> FALSE, bytes |-> <<>>, err |-> "Invalid character"]
    ELSE [ok |-> TRUE, bytes |-> HexBytes(s), err |-> ""]

AddressHexLen == 40

\* Address::decode: exactly 40 hex characters -> 20 bytes.
AddressDecode(s) ==
    IF Len(s) # AddressHexLen THEN [ok |-> FALSE, bytes |-> <<>>, err |-> "ERR_INCORRECT_ADDRESS_LENGTH"]
    ELSE IF ~AllHex(s) THEN [ok |-> FALSE, bytes |-> <<>>, err |-> "ERR_FAILED_PARSE"]
    ELSE [ok |-> TRUE, bytes |-> HexBytes(s), err |-> ""]

(***************************************************************************)
(* U256::from_dec_str                                                      *)
(*                                                                         *)
(* A 256-bit value is held as its canonical decimal numeral ("0", or       *)
(* digits without a leading zero), so the container's bound 2^256 - 1 is   *)
(* kept exactly.                                                           *)
(***************************************************************************)

U256Max == "115792089237316195423570985008687907853269984665640564039457584007913129639935"

\* The value of a string of digits: leading zeros dropped, "" and "000" are 0.
Canon(d) ==
    LET nz == {i \in 1..Len(d) : Ch(d, i) # "0"}
    IN IF nz = {} THEN "0" ELSE SubSeq(d, MinOf(nz), Len(d))

\* a <= b for canonical decimal numerals: by length, then by the first
\* digit that differs.
NumLeq(a, b) ==
    IF Len(a) # Len(b) THEN Len(a) < Len(b)
    ELSE LET diff == {i \in 1..Len(a) : Ch(a, i) # Ch(b, i)}
         IN diff = {} \/ DigitVal(Ch(a, MinOf(diff))) < DigitVal(Ch(b, MinOf(diff)))

\* U256::from_dec_str.  The source's loop folds res = res * 10 + digit from
\* zero over the bytes, left to right, and stops at the first byte that is
\* not a digit (InvalidCharacter) or at the first overflow of the 256 bits
\* (InvalidLength).  The value only grows along the digits, so the loop
\* overflows before reaching the first non-digit exactly when the digits
\* before it exceed 2^256 - 1.  "" yields zero; a sign is not a digit.
FromDecStr(s) ==
    LET bad == {i \in 1..Len(s) : ~IsDigit(Ch(s, i))}
        stop == IF bad = {} THEN Len(s) + 1 ELSE MinOf(bad)
        val == Canon(SubSeq(s, 1, stop - 1))
    IN IF ~NumLeq(val, U256Max) THEN [ok |-> FALSE, val |-> "0", err |-> "InvalidLength"]
       ELSE IF stop <= Len(s) THEN [ok |-> FALSE, val |-> "0", err |-> "InvalidCharacter"]
       ELSE [ok |-> TRUE, val |-> val, err |-> ""]

(***************************************************************************)
(* serde_json::Value, serde_json::from_str and serde_json::to_string       *)
(*                                                                         *)
(* A Value is a record tagged by j: null, bool (b), num (n: the text       *)
(* to_string prints for the number), str (s), arr (a: sequence of Values), *)
(* obj (o: sequence of [k, v] entries in key order, as the default         *)
(* BTreeMap-backed Map keeps them).                                        *)
(***************************************************************************)

JNull == [j |-> "null"]
JBool(b) == [j |-> "bool", b |-> b]
JNum(n) == [j |-> "num", n |-> n]
JStr(t) == [j |-> "str", s |-> t]
JArr(a) == [j |-> "arr", a |-> a]
JObj(o) == [j |-> "obj", o |-> o]

JFail == [ok |-> FALSE, v |-> JNull, i |-> 0]
JOk(v, i) == [ok |-> TRUE, v |-> v, i |-> i]

U64Max == "18446744073709551615"
I64MinAbs == "9223372036854775808"

\* Index of the first character at or after i that is not JSON whitespace
\* (space, tab, LF, CR); Len(s) + 1 when there is none.
SkipWs(s, i) ==
    LET non == {k \in i..Len(s) : Ch(s, k) \notin {" ", "\t", "\n", "\r"}}
    IN IF non = {} THEN Len(s) + 1 ELSE MinOf(non)

\* Index of the first character at or after i that is not a digit.
ScanDigits(s, i) ==
    LET non == {k \in i..Len(s) : ~IsDigit(Ch(s, k))}
    IN IF non = {} THEN Len(s) + 1 ELSE MinOf(non)

HasAt(s, i, lit) == i + Len(lit) - 1 <= Len(s) /\ SubSeq(s, i, i + Len(lit) - 1) = lit

\* Decimal text of a small natural number.
RECURSIVE NatText(_)
NatText(n) ==
    IF n < 10 THEN SubSeq(Digits, n + 1, n + 1)
    ELSE NatText(n \div 10) \o SubSeq(Digits, (n % 10) + 1, (n % 10) + 1)

\* Text to_string prints for an integer literal too large for u64 / i64,
\* which from_str holds as an f64: scientific notation, d.ddd...e<exp>.  The
\* exponent and the shape are exact; the mantissa is the literal's leading
\* significant digits cut at 17 with trailing zeros dropped, where the
\* library prints the shortest digits that round-trip.
BigIntText(neg, digits) ==
    LET lead == SubSeq(digits, 1, IF Len(digits) < 17 THEN Len(digits) ELSE 17)
        nz == {i \in 1..Len(lead) : Ch(lead, i) # "0"}
        sig == SubSeq(lead, 1, MaxOf(nz))
        mant == IF Len(sig) = 1 THEN sig ELSE Ch(sig, 1) \o "." \o SubSeq(sig, 2, Len(sig))
    IN (IF neg THEN "-" ELSE "") \o mant \o "e" \o NatText(Len(digits) - 1)

\* Text to_string prints for an integer literal: within u64 (or, negative,
\* within i64) the integer itself; "-0" and integers out of range are f64.
NumInteger(neg, digits) ==
    IF ~neg THEN (IF NumLeq(digits, U64Max) THEN digits ELSE BigIntText(FALSE, digits))
    ELSE IF digits = "0" THEN "-0.0"
    ELSE IF NumLeq(digits, I64MinAbs) THEN "-" \o digits
    ELSE BigIntText(TRUE, digits)

\* The exponent's digits are due at expAt.
NumExpDigits(s, i, expAt) ==
    IF ScanDigits(s, expAt) = expAt THEN JFail
    ELSE JOk(JNum(SubSeq(s, i, ScanDigits(s, expAt) - 1)), ScanDigits(s, expAt))

\* After the fraction (fracEnd = intEnd when there is none): the exponent.
NumExp(s, i, p, intEnd, fracEnd) ==
    IF Ch(s, fracEnd) \in {"e", "E"}
    THEN NumExpDigits(s, i, IF Ch(s, fracEnd + 1) \in {"+", "-"} THEN fracEnd + 2 ELSE fracEnd + 1)
    ELSE IF fracEnd > intEnd THEN JOk(JNum(SubSeq(s, i, fracEnd - 1)), fracEnd)
    ELSE JOk(JNum(NumInteger(Ch(s, i) = "-", SubSeq(s, p, intEnd - 1))), intEnd)

\* After the integer part, which ends before intEnd: the fraction.
NumFrac(s, i, p, intEnd) ==
    IF Ch(s, intEnd) # "." THEN NumExp(s, i, p, intEnd, intEnd)
    ELSE IF ScanDigits(s, intEnd + 1) = intEnd + 1 THEN JFail
    ELSE NumExp(s, i, p, intEnd, ScanDigits(s, intEnd + 1))

\* The integer part starts at p: a digit, and no digit after a leading 0.
NumInt(s, i, p) ==
    IF ~IsDigit(Ch(s, p)) THEN JFail
    ELSE IF Ch(s, p) = "0" /\ IsDigit(Ch(s, p + 1)) THEN JFail
    ELSE NumFrac(s, i, p, IF Ch(s, p) = "0" THEN p + 1 ELSE ScanDigits(s, p))

\* A JSON number starting at i: -? (0 | [1-9][0-9]*) (. [0-9]+)? ([eE] [+-]? [0-9]+)?
\* A literal with a fraction or exponent is an f64 and is printed back as
\* written, which is what the library prints when the literal is already
\* in shortest form (the form of the inputs used here).
ParseNumber(s, i) == NumInt(s, i, IF Ch(s, i) = "-" THEN i + 1 ELSE i)

\* The character with ASCII code v; "" when it is outside the alphabet.
AsciiChar(v) ==
    CASE v = 9 -> "\t"
      [] v = 10 -> "\n"
      [] v = 12 -> "\f"
      [] v = 13 -> "\r"
      [] v >= 32 /\ v <= 95 -> Ch(Alphabet, v - 27)
      [] v >= 97 /\ v <= 126 -> Ch(Alphabet, v - 28)
      [] OTHER -> ""

\* The character the escape at k (s[k] is the backslash) stands for; ""
\* when it is malformed or denotes a character outside the model's alphabet
\* (\b, and \uXXXX beyond the alphabet).
EscChar(s, k) ==
    LET e == Ch(s, k + 1)
        h == [n \in 1..4 |-> HexVal(Ch(s, k + 1 + n))]
    IN CASE e = "\"" -> "\""
         [] e = "\\" -> "\\"
         [] e = "/" -> "/"
         [] e = "n" -> "\n"
         [] e = "t" -> "\t"
         [] e = "r" -> "\r"
         [] e = "f" -> "\f"
         [] e = "u" -> IF \E n \in 1..4 : h[n] < 0 THEN ""
                       ELSE AsciiChar(4096 * h[1] + 256 * h[2] + 16 * h[3] + h[4])
         [] OTHER -> ""

\* Number of characters of the escape at k.
EscLen(s, k) == IF Ch(s, k + 1) = "u" THEN 6 ELSE 2

IsControl(c) == c \in {"\t", "\n", "\r", "\f"}

\* Index of the first quote, backslash or raw control character at or
\* after i; 0 when there is none.
SpecialFrom(s, i) ==
    LET sp == {k \in i..Len(s) : Ch(s, k) \in {"\"", "\\"} \/ IsControl(Ch(s, k))}
    IN IF sp = {} THEN 0 ELSE MinOf(sp)

RECURSIVE StrScan(_, _, _)

\* The string continues from i, its next special character being at k.
StrAt(s, i, acc, k) ==
    IF k = 0 THEN JFail
    ELSE IF Ch(s, k) = "\"" THEN JOk(JStr(acc \o SubSeq(s, i, k - 1)), k + 1)
    ELSE IF Ch(s, k) = "\\" /\ EscChar(s, k) # ""
         THEN StrScan(s, k + EscLen(s, k), acc \o SubSeq(s, i, k - 1) \o EscChar(s, k))
    ELSE JFail

\* The rest of a JSON string whose opening quote precedes i: plain runs are
\* copied, escapes decoded, a raw control character or a missing closing
\* quote is an error.  Yields the decoded text and the index after the quote.
StrScan(s, i, acc) == StrAt(s, i, acc, SpecialFrom(s, i))

\* Byte-wise lexicographic order of strings (the order of Map keys).
StrLess(a, b) ==
    LET n == IF Len(a) < Len(b) THEN Len(a) ELSE Len(b)
        diff == {i \in 1..n : Ch(a, i) # Ch(b, i)}
    IN IF diff = {} THEN Len(a) < Len(b)
       ELSE Code(Ch(a, MinOf(diff))) < Code(Ch(b, MinOf(diff)))

\* Map::insert: the entry replaces one with the same key; keys stay sorted.
MapInsert(o, key, val) ==
    SelectSeq(o, LAMBDA e : StrLess(e.k, key))
        \o <<[k |-> key, v |-> val]>>
        \o SelectSeq(o, LAMBDA e : StrLess(key, e.k))

\* Map::get
MapHas(o, key) == \E n \in 1..Len(o) : o[n].k = key
MapGet(o, key) == o[CHOOSE n \in 1..Len(o) : o[n].k = key].v

RECURSIVE ParseValue(_, _), ParseElems(_, _, _), ParseMembers(_, _, _)

\* After an element: "," (another element is due) or "]".
ElemEnd(s, j, acc) ==
    IF Ch(s, j) = "," THEN ParseElems(s, j + 1, acc)
    ELSE IF Ch(s, j) = "]" THEN JOk(JArr(acc), j + 1)
    ELSE JFail

\* r is the parse of the element that was due.
ElemNext(s, acc, r) ==
    IF ~r.ok THEN JFail ELSE ElemEnd(s, SkipWs(s, r.i), Append(acc, r.v))

\* The elements of an array from i, where an element is due.
ParseElems(s, i, acc) == ElemNext(s, acc, ParseValue(s, i))

\* After a member: "," (another member is due) or "}".
MemberEnd(s, e, map) ==
    IF Ch(s, e) = "," THEN ParseMembers(s, e + 1, map)
    ELSE IF Ch(s, e) = "}" THEN JOk(JObj(map), e + 1)
    ELSE JFail

\* r is the parse of the member's value.
MemberValue(s, key, r, acc) ==
    IF ~r.ok THEN JFail ELSE MemberEnd(s, SkipWs(s, r.i), MapInsert(acc, key, r.v))

\* key is the parse of the member's name; c is where the ":" is due.
MemberColon(s, key, c, acc) ==
    IF Ch(s, c) # ":" THEN JFail ELSE MemberValue(s, key, ParseValue(s, c + 1), acc)

MemberKey(s, key, acc) ==
    IF ~key.ok THEN JFail ELSE MemberColon(s, key.v.s, SkipWs(s, key.i), acc)

MemberAt(s, j, acc) ==
    IF Ch(s, j) # "\"" THEN JFail ELSE MemberKey(s, StrScan(s, j + 1, ""), acc)

\* The members of an object from i, where a member is due: "key" : value.
ParseMembers(s, i, acc) == MemberAt(s, SkipWs(s, i), acc)

\* After "[" : the empty array, or its elements.
ArrayOpen(s, k) ==
    IF Ch(s, k) = "]" THEN JOk(JArr(<<>>), k + 1) ELSE ParseElems(s, k, <<>>)

\* After "{" : the empty object, or its members.
ObjectOpen(s, k) ==
    IF Ch(s, k) = "}" THEN JOk(JObj(<<>>), k + 1) ELSE ParseMembers(s, k, <<>>)

\* The JSON value that starts at j.
ValueAt(s, j) ==
    CASE Ch(s, j) = "n" -> IF HasAt(s, j, "null") THEN JOk(JNull, j + 4) ELSE JFail
      [] Ch(s, j) = "t" -> IF HasAt(s, j, "true") THEN JOk(JBool(TRUE), j + 4) ELSE JFail
      [] Ch(s, j) = "f" -> IF HasAt(s, j, "false") THEN JOk(JBool(FALSE), j + 5) ELSE JFail
      [] Ch(s, j) = "\"" -> StrScan(s, j + 1, "")
      [] Ch(s, j) = "[" -> ArrayOpen(s, SkipWs(s, j + 1))
      [] Ch(s, j) = "{" -> ObjectOpen(s, SkipWs(s, j + 1))
      [] Ch(s, j) = "-" \/ IsDigit(Ch(s, j)) -> ParseNumber(s, j)
      [] OTHER -> JFail

\* One JSON value starting at or after i (leading whitespace skipped).
ParseValue(s, i) == ValueAt(s, SkipWs(s, i))

\* r parsed one value: only whitespace may follow it.
Complete(s, r) ==
    IF r.ok /\ SkipWs(s, r.i) > Len(s) THEN [ok |-> TRUE, v |-> r.v]
    ELSE [ok |-> FALSE, v |-> JNull]

\* serde_json::from_str
JsonFromStr(s) == Complete(s, ParseValue(s, 1))

\* How to_string writes one character of a string.
EscapeChar(c) ==
    CASE c = "\"" -> "\\\""
      [] c = "\\" -> "\\\\"
      [] c = "\n" -> "\\n"
      [] c = "\t" -> "\\t"
      [] c = "\r" -> "\\r"
      [] c = "\f" -> "\\f"
      [] OTHER -> c

\* The escaped content of a string (computed by halves).
RECURSIVE EscapeStr(_)
EscapeStr(s) ==
    IF Len(s) = 0 THEN ""
    ELSE IF Len(s) = 1 THEN EscapeChar(s)
    ELSE LET h == Len(s) \div 2
         IN EscapeStr(SubSeq(s, 1, h)) \o EscapeStr(SubSeq(s, h + 1, Len(s)))

RECURSIVE JsonToString(_), JoinElems(_, _), JoinMembers(_, _)

\* serde_json::to_string: compact; a string is written between quotes.
JsonToString(v) ==
    CASE v.j = "null" -> "null"
      [] v.j = "bool" -> IF v.b THEN "true" ELSE "false"
      [] v.j = "num" -> v.n
      [] v.j = "str" -> "\"" \o EscapeStr(v.s) \o "\""
      [] v.j = "arr" -> "[" \o JoinElems(v.a, 1) \o "]"
      [] v.j = "obj" -> "{" \o JoinMembers(v.o, 1) \o "}"

JoinElems(a, n) ==
    IF n > Len(a) THEN ""
    ELSE JsonToString(a[n]) \o (IF n < Len(a) THEN "," ELSE "") \o JoinElems(a, n + 1)

JoinMembers(o, n) ==
    IF n > Len(o) THEN ""
    ELSE "\"" \o EscapeStr(o[n].k) \o "\":" \o JsonToString(o[n].v)
            \o (IF n < Len(o) THEN "," ELSE "") \o JoinMembers(o, n + 1)

(***************************************************************************)
(* ethabi::ParamType and ethabi::Token                                     *)
(***************************************************************************)

KAddress == [k |-> "Address"]
KBytes == [k |-> "Bytes"]
KInt(bits) == [k |-> "Int", bits |-> bits]
KUint(bits) == [k |-> "Uint", bits |-> bits]
KBool == [k |-> "Bool"]
KString == [k |-> "String"]
KArray(elem) == [k |-> "Array", elem |-> elem]
KFixedBytes(size) == [k |-> "FixedBytes", size |-> size]
KFixedArray(elem, size) == [k |-> "FixedArray", elem |-> elem, size |-> size]
KTuple(fields) == [k |-> "Tuple", fields |-> fields]

Token(t, v) == [t |-> t, v |-> v]
NoToken == [t |-> "None", v |-> <<>>]

(***************************************************************************)
(* parse_arg and parse_array                                               *)
(*                                                                         *)
(* A result is [ok, tok (toks for parse_array), err, log].  log lists the  *)
(* parse_arg calls that ran, in the order they returned, each with its     *)
(* argument, its kind and whether it returned Ok.                          *)
(***************************************************************************)

POk(tok, log) == [ok |-> TRUE, tok |-> tok, err |-> "", log |-> log]
PErr(err, log) == [ok |-> FALSE, tok |-> NoToken, err |-> err, log |-> log]

\* An error that is dropped instead of returned.
Propagates_Never(r) == FALSE

\* The `?` on a Result: whether the enclosing function returns the error now.
Propagates(r) == ~r.ok

\* A length check that only rejects too long a value (shorter ones pass).
SizeMatches_AtMost(len, size) == len <= size

\* `&bytes.len() != size` / `&tokens.len() != size`, negated
SizeMatches(len, size) == len = size

\* An arity check that lets surplus values through (zip drops them).
TupleArityMatches_AtLeast(values, tuple_kinds) == Len(values) >= Len(tuple_kinds)

\* `values.len() != tuple_kinds.len()`, negated
TupleArityMatches(values, tuple_kinds) == Len(values) = Len(tuple_kinds)

\* The Uint arm building the Int arm's variant.
ScalarToken_IntForUint(kind, v) == Token(IF kind.k = "Uint" THEN "Int" ELSE kind.k, v)

\* The token variant each scalar arm of parse_arg builds.
ScalarToken(kind, v) == Token(kind.k, v)

AOk(toks, log) == [ok |-> TRUE, toks |-> toks, err |-> "", log |-> log]
AErr(err, log) == [ok |-> FALSE, toks |-> <<>>, err |-> err, log |-> log]

RECURSIVE ParseArg(_, _), ArrayLoop(_, _, _, _, _), TupleLoop(_, _, _, _, _)

\* r is parse_arg of element n: `let token = parse_arg(..)?; tokens.push(token)`
ArrayStep(values, arr_kind, n, tokens, log, r) ==
    IF Propagates(r) THEN AErr(r.err, log \o r.log)
    ELSE ArrayLoop(values, arr_kind, n + 1, Append(tokens, r.tok), log \o r.log)

\* The `for v in values` loop of parse_array, from element n on.
ArrayLoop(values, arr_kind, n, tokens, log) ==
    IF n > Len(values) THEN AOk(tokens, log)
    ELSE ArrayStep(values, arr_kind, n, tokens, log,
                   ParseArg(JsonToString(values[n]), arr_kind))

ParseArray(value, arr_kind) ==
    IF value.j = "arr" THEN ArrayLoop(value.a, arr_kind, 1, <<>>, <<>>)
    ELSE AErr("Expected Array", <<>>)

\* r is parse_arg of pair n: `let token = parse_arg(..)?; tokens.push(token)`
TupleStep(values, tuple_kinds, n, tokens, log, r) ==
    IF Propagates(r) THEN AErr(r.err, log \o r.log)
    ELSE TupleLoop(values, tuple_kinds, n + 1, Append(tokens, r.tok), log \o r.log)

\* The `for (v, kind) in values.iter().zip(tuple_kinds.iter())` loop of the
\* Tuple arm, from pair n on; zip ends with the shorter of the two.
TupleLoop(values, tuple_kinds, n, tokens, log) ==
    IF n > Len(values) \/ n > Len(tuple_kinds) THEN AOk(tokens, log)
    ELSE TupleStep(values, tuple_kinds, n, tokens, log,
                   ParseArg(JsonToString(values[n]), tuple_kinds[n]))

\* Address arm, addr being Address::decode(arg)
AddressArm(kind, addr) ==
    IF ~addr.ok THEN PErr(addr.err, <<>>) ELSE POk(ScalarToken(kind, addr.bytes), <<>>)

\* Bytes arm, bytes being hex::decode(arg)
BytesArm(kind, bytes) ==
    IF ~bytes.ok THEN PErr(bytes.err, <<>>) ELSE POk(ScalarToken(kind, bytes.bytes), <<>>)

\* Int arm, value being U256::from_dec_str(arg)
IntArm(kind, value) ==
    IF ~value.ok THEN PErr(value.err, <<>>) ELSE POk(ScalarToken(kind, value.val), <<>>)

\* Uint arm, value being U256::from_dec_str(arg)
UintArm(kind, value) ==
    IF ~value.ok THEN PErr(value.err, <<>>) ELSE POk(ScalarToken(kind, value.val), <<>>)

\* Bool arm, lower being arg.to_lowercase()
BoolArm(kind, lower) ==
    IF lower = "true" THEN POk(ScalarToken(kind, TRUE), <<>>)
    ELSE IF lower = "false" THEN POk(ScalarToken(kind, FALSE), <<>>)
    ELSE PErr("Expected true or false", <<>>)

\* FixedBytes arm, bytes being hex::decode(&arg)
FixedBytesArm(kind, bytes) ==
    IF ~bytes.ok THEN PErr(bytes.err, <<>>)
    ELSE IF ~SizeMatches(Len(bytes.bytes), kind.size) THEN PErr("Incorrect FixedBytes length", <<>>)
    ELSE POk(ScalarToken(kind, bytes.bytes), <<>>)

\* `parse_array(value, arr_kind).map(ethabi::Token::Array)`
ArrayResult(r) ==
    IF ~r.ok THEN PErr(r.err, r.log) ELSE POk(Token("Array", r.toks), r.log)

\* Array arm, value being serde_json::from_str(arg)
ArrayArm(kind, value) ==
    IF ~value.ok THEN PErr("JSON", <<>>) ELSE ArrayResult(ParseArray(value.v, kind.elem))

\* `let tokens = parse_array(value, arr_kind)?;` and the size check
FixedArrayResult(r, size) ==
    IF Propagates(r) THEN PErr(r.err, r.log)
    ELSE IF ~SizeMatches(Len(r.toks), size) THEN PErr("Incorrect FixedArray length", r.log)
    ELSE POk(Token("FixedArray", r.toks), r.log)

\* FixedArray arm, value being serde_json::from_str(arg)
FixedArrayArm(kind, value) ==
    IF ~value.ok THEN PErr("JSON", <<>>)
    ELSE FixedArrayResult(ParseArray(value.v, kind.elem), kind.size)

\* The outcome of the Tuple arm's loop
TupleResult(r) ==
    IF ~r.ok THEN PErr(r.err, r.log) ELSE POk(Token("Tuple", r.toks), r.log)

\* Tuple arm, value being serde_json::from_str(arg)
TupleArm(kind, value) ==
    IF ~value.ok THEN PErr("JSON", <<>>)
    ELSE IF value.v.j # "arr" THEN PErr("Expected Array", <<>>)
    ELSE IF ~TupleArityMatches(value.v.a, kind.fields)
         THEN PErr("Incorrect number of args for tuple size", <<>>)
    ELSE TupleResult(TupleLoop(value.v.a, kind.fields, 1, <<>>, <<>>))

\* The match of parse_arg.
ParseArgArm(arg, kind) ==
    CASE kind.k = "Address" -> AddressArm(kind, AddressDecode(arg))
      [] kind.k = "Bytes" -> BytesArm(kind, HexDecode(arg))
      [] kind.k = "Int" -> IntArm(kind, FromDecStr(arg))
      [] kind.k = "Uint" -> UintArm(kind, FromDecStr(arg))
      [] kind.k = "Bool" -> BoolArm(kind, ToLowercase(arg))
      [] kind.k = "String" -> POk(ScalarToken(kind, arg), <<>>)
      [] kind.k = "Array" -> ArrayArm(kind, JsonFromStr(arg))
      [] kind.k = "FixedBytes" -> FixedBytesArm(kind, HexDecode(arg))
      [] kind.k = "FixedArray" -> FixedArrayArm(kind, JsonFromStr(arg))
      [] kind.k = "Tuple" -> TupleArm(kind, JsonFromStr(arg))

\* r with the entry of this call appended to its log.
Logged(arg, kind, r) ==
    [r EXCEPT !.log = Append(r.log, [arg |-> arg, kind |-> kind, ok |-> r.ok, err |-> r.err])]

ParseArg(arg, kind) == Logged(arg, kind, ParseArgArm(arg, kind))

(***************************************************************************)
(* ethabi::Contract, Contract::function, Function::encode_input            *)
(***************************************************************************)

Param(name, kind) == [name |-> name, kind |-> kind]
Function(name, inputs) == [name |-> name, inputs |-> inputs]
NoFunction == Function("", <<>>)

Addr1 == "0000000000000000000000000000000000000001"
AddrMixed == "00000000000000000000000000000000DeadBeef"

\* The interface description the ABI file holds: the functions of the
\* contract, in declaration order.
Erc20Abi ==
    << Function("transfer", <<Param("to", KAddress), Param("amount", KUint(256))>>),
       Function("approve", <<Param("spender", KAddress), Param("amount", KUint(256))>>),
       Function("pause", <<>>),
       Function("setFlag", <<Param("flag", KBool)>>),
       Function("setNote", <<Param("note", KString)>>),
       Function("setLevel", <<Param("amount", KUint(8))>>),
       Function("setDelta", <<Param("delta", KInt(256))>>),
       Function("setTag", <<Param("tag", KFixedBytes(2))>>),
       Function("setList", <<Param("list", KArray(KUint(256)))>>),
       Function("setPair", <<Param("pair", KFixedArray(KBool, 2))>>),
       Function("setPoint", <<Param("point", KTuple(<<KUint(256), KBool>>))>>),
       Function("mint", <<Param("to", KAddress), Param("list", KArray(KUint(256))),
                          Param("flag", KBool)>>) >>

\* read_abi: File::open, then Contract::load.  The file system holds one
\* well-formed description and one malformed one; any other path is absent.
ReadAbi(abi_path) ==
    CASE abi_path = "erc20.abi" -> [ok |-> TRUE, abi |-> Erc20Abi, err |-> ""]
      [] abi_path = "broken.abi" -> [ok |-> FALSE, abi |-> <<>>, err |-> "LoadError"]
      [] OTHER -> [ok |-> FALSE, abi |-> <<>>, err |-> "IOError"]

\* Contract::function: the first function of that name, or InvalidName.
AbiFunction(abi, method_name) ==
    LET at == {n \in 1..Len(abi) : abi[n].name = method_name}
    IN IF at = {} THEN [ok |-> FALSE, function |-> NoFunction, err |-> "InvalidName"]
       ELSE [ok |-> TRUE, function |-> abi[MinOf(at)], err |-> ""]

\* Token::type_check
RECURSIVE TypeCheck(_, _)
TypeCheck(tok, kind) ==
    CASE tok.t \in {"Address", "Bytes", "Int", "Uint", "Bool", "String"} -> kind.k = tok.t
      [] tok.t = "FixedBytes" -> kind.k = "FixedBytes" /\ kind.size >= Len(tok.v)
      [] tok.t = "Array" ->
            kind.k = "Array" /\ \A n \in 1..Len(tok.v) : TypeCheck(tok.v[n], kind.elem)
      [] tok.t = "FixedArray" ->
            /\ kind.k = "FixedArray"
            /\ kind.size = Len(tok.v)
            /\ \A n \in 1..Len(tok.v) : TypeCheck(tok.v[n], kind.elem)
      [] tok.t = "Tuple" ->
            /\ kind.k = "Tuple"
            /\ Len(tok.v) <= Len(kind.fields)
            /\ \A n \in 1..Len(tok.v) : TypeCheck(tok.v[n], kind.fields[n])
      [] OTHER -> FALSE

\* Token::types_check
TypesCheck(tokens, inputs) ==
    /\ Len(tokens) = Len(inputs)
    /\ \A n \in 1..Len(tokens) : TypeCheck(tokens[n], inputs[n].kind)

\* Function::encode_input: InvalidData unless the tokens check against the
\* declared inputs; otherwise the call data.  The bytes are kept as what
\* determines them: the function whose signature gives the selector, and
\* the tokens the payload encodes.
EncodeInput(function, tokens) ==
    IF ~TypesCheck(tokens, function.inputs)
    THEN [ok |-> FALSE, bytes |-> <<>>, err |-> "InvalidData"]
    ELSE [ok |-> TRUE, bytes |-> <<function.name, tokens>>, err |-> ""]

(***************************************************************************)
(* read_arg                                                                *)
(***************************************************************************)

None == [some |-> FALSE, val |-> ""]
Some(v) == [some |-> TRUE, val |-> v]

\* A resolver that reads standard input whenever the flag is set, explicit
\* text or not.
ReadsStdin_FlagOnly(arg, stdin_arg) == stdin_arg = "Some(true)"

\* Whether read_arg reaches read_to_string on standard input.
ReadsStdin(arg, stdin_arg) == ~arg.some /\ stdin_arg = "Some(true)"

\* The string read_arg returns, stdin being what read_to_string yields.
ReadArg(arg, stdin_arg, stdin) ==
    IF arg.some THEN arg.val
    ELSE IF stdin_arg = "Some(true)" THEN stdin
    ELSE ""

(***************************************************************************)
(* Solidity::abi_encode                                                    *)
(***************************************************************************)

EOk(bytes, log) == [ok |-> TRUE, bytes |-> bytes, err |-> "", log |-> log]
EErr(err, log) == [ok |-> FALSE, bytes |-> <<>>, err |-> err, log |-> log]

\* A count check that only rejects functions without inputs.
TakesOneArgument_AtLeastOne(function) == Len(function.inputs) >= 1

\* `function.inputs.len() != 1`, negated
TakesOneArgument(function) == Len(function.inputs) = 1

\* `function.encode_input(..).map_err(wrap_error)?; Ok(bytes.to_vec())`
Encoded(bytes, log) ==
    IF ~bytes.ok THEN EErr(bytes.err, log) ELSE EOk(bytes.bytes, log)

\* r is `parse_arg(arg.trim(), arg_type)`
UnaryParsed(function, r) ==
    IF Propagates(r) THEN EErr(r.err, r.log)
    ELSE Encoded(EncodeInput(function, <<r.tok>>), r.log)

\* UnaryCall after read_arg: parse the trimmed argument against the one
\* input's kind, then encode.
UnaryEncode(function, arg) ==
    UnaryParsed(function, ParseArg(Trim(arg), function.inputs[1].kind))

\* A lookup that takes a value of any JSON type, as its text.
FieldStr_AnyValue(vars_map, name) ==
    IF ~MapHas(vars_map, name) THEN None
    ELSE IF MapGet(vars_map, name).j = "str" THEN Some(MapGet(vars_map, name).s)
    ELSE Some(JsonToString(MapGet(vars_map, name)))

\* `vars_map.get(&input.name).and_then(|v| v.as_str())`
FieldStr(vars_map, name) ==
    IF MapHas(vars_map, name) /\ MapGet(vars_map, name).j = "str"
    THEN Some(MapGet(vars_map, name).s)
    ELSE None

RECURSIVE NamedLoop(_, _, _, _, _)

\* r is parse_arg of input n's field: `let token = ..?; tokens.push(token)`
NamedStep(inputs, vars_map, n, tokens, log, r) ==
    IF Propagates(r) THEN AErr(r.err, log \o r.log)
    ELSE NamedLoop(inputs, vars_map, n + 1, Append(tokens, r.tok), log \o r.log)

\* arg is the field looked up for input n; a failed lookup is logged as an
\* entry of its own.
NamedField(inputs, vars_map, n, tokens, log, arg) ==
    IF ~arg.some
    THEN AErr("Missing variable",
              Append(log, [arg |-> inputs[n].name, kind |-> inputs[n].kind,
                           ok |-> FALSE, err |-> "Missing variable"]))
    ELSE NamedStep(inputs, vars_map, n, tokens, log, ParseArg(arg.val, inputs[n].kind))

\* The `for input in function.inputs.iter()` loop of CallArgsByName, from
\* input n on.
NamedLoop(inputs, vars_map, n, tokens, log) ==
    IF n > Len(inputs) THEN AOk(tokens, log)
    ELSE NamedField(inputs, vars_map, n, tokens, log, FieldStr(vars_map, inputs[n].name))

\* r is the outcome of the loop over the inputs
NamedTokens(function, r) ==
    IF ~r.ok THEN EErr(r.err, r.log)
    ELSE Encoded(EncodeInput(function, r.toks), r.log)

\* arg is `serde_json::from_str(&read_arg(..))`
NamedValue(function, arg) ==
    IF ~arg.ok THEN EErr("JSON", <<>>)
    ELSE IF arg.v.j # "obj" THEN EErr("Expected JSON object", <<>>)
    ELSE NamedTokens(function, NamedLoop(function.inputs, arg.v.o, 1, <<>>, <<>>))

\* CallArgsByName after read_arg: the text as a JSON object, one token per
\* declared input, then encode.
NamedEncode(function, text) == NamedValue(function, JsonFromStr(text))

\* An order in which the argument is read before anything else.
Stages_ReadFirst(mode) ==
    IF mode = "UnaryCall"
    THEN <<"read_arg", "read_abi", "function", "inputs_len", "encode">>
    ELSE <<"read_arg", "read_abi", "function", "encode">>

\* The statements of abi_encode, in program order, per variant.
Stages(mode) ==
    IF mode = "UnaryCall"
    THEN <<"read_abi", "function", "inputs_len", "read_arg", "encode">>
    ELSE <<"read_abi", "function", "read_arg", "encode">>

(***************************************************************************)
(* Inputs                                                                  *)
(***************************************************************************)

MaxElems == 3
MaxHexLen == 4
MaxSize == 2
MaxMembers == 2

\* All strings over the characters chars of length at most n.
RECURSIVE StringsUpTo(_, _)
StringsUpTo(chars, n) ==
    IF n = 0 THEN {""}
    ELSE LET shorter == StringsUpTo(chars, n - 1)
         IN shorter \cup {t \o c : t \in shorter, c \in chars}

\* All comma-separated lists of exactly n items.
RECURSIVE ListsOf(_, _)
ListsOf(items, n) ==
    IF n = 0 THEN {""}
    ELSE IF n = 1 THEN items
    ELSE {t \o "," \o e : t \in ListsOf(items, n - 1), e \in items}

ListsUpTo(items, n) == UNION {ListsOf(items, m) : m \in 0..n}

HexTexts == StringsUpTo({"0", "a", "F", "g"}, MaxHexLen)

U256MaxPlus1 == "115792089237316195423570985008687907853269984665640564039457584007913129639936"
I256Max == "57896044618658097711785492504343953926634992332820282019728792003956564819967"
I256MaxPlus1 == "57896044618658097711785492504343953926634992332820282019728792003956564819968"

NumberTexts ==
    {"0", "1", "300", "007", "", "-1", "+1", "-0", "1a", " 1", "1.5", "18446744073709551616",
     U256Max, U256MaxPlus1, I256Max, I256MaxPlus1, "-" \o I256MaxPlus1, "-" \o U256Max}

WordTexts == {"true", "True", "FALSE", "false", "yes", "ab", "a\"b", "\"ab\"", "null", Addr1, AddrMixed,
              "0x" \o Addr1, "{}", "{\"a\":1}"}

ElemTexts == {"1", "true", "\"0a\"", "\"1\"", "[1,2]", "x"}

ArrayTexts ==
    {"[" \o t \o "]" : t \in ListsUpTo(ElemTexts, MaxElems)}
        \cup {"[ 1 , 2 ]", "[1,2", "[1,]", "[[1],[2,true],[3]]", "[[1,2],[3,4]]",
              "[\"" \o Addr1 \o "\"]", "[18446744073709551616]", "[\"a\\\"b\"]",
              "[[1,true],[2,false]]", "[[1,true],[2,3],[4,false]]"}

ScalarKinds ==
    {KAddress, KBytes, KInt(256), KUint(8), KUint(256), KBool, KString}
        \cup {KFixedBytes(n) : n \in 1..MaxSize}

ContainerKinds ==
    {KArray(e) : e \in ScalarKinds}
        \cup {KFixedArray(e, n) : e \in {KUint(256), KBool, KString, KBytes}, n \in 1..MaxSize}
        \cup {KTuple(<<>>), KTuple(<<KUint(256)>>), KTuple(<<KUint(256), KBool>>),
              KTuple(<<KBool, KUint(256)>>), KTuple(<<KString, KUint(8), KBool>>),
              KArray(KArray(KUint(256))), KArray(KTuple(<<KUint(256), KBool>>)),
              KFixedArray(KArray(KUint(256)), 2), KTuple(<<KArray(KUint(256)), KBool>>)}

\* The (arg, kind) pairs parse_arg is applied to.
ParseCalls ==
    {[arg |-> a, kind |-> k] : a \in NumberTexts \cup WordTexts \cup HexTexts, k \in ScalarKinds}
        \cup {[arg |-> a, kind |-> k] : a \in ArrayTexts \cup {"", "1", "{}", "\"ab\""}, k \in ContainerKinds}

(***************************************************************************)
(* State                                                                   *)
(***************************************************************************)

VARIABLES
    cmd,          \* the Solidity value abi_encode consumes: mode and its fields
    pc,           \* index in Stages(cmd.mode) of the next statement
    abi,          \* the contract read_abi returned
    function,     \* the function abi.function returned
    text,         \* the string read_arg returned
    result,       \* what abi_encode returned: running, or Ok(bytes) / Err
    log,          \* the parse_arg calls and field lookups that ran, in order
    stdin,        \* what standard input delivers up to end-of-stream
    stdin_eof,    \* whether end-of-stream has been signalled
    stdin_reads,  \* number of read_to_string calls on standard input
    call,         \* a direct call parse_arg(arg, kind)
    ret           \* what that call returned

vars == <<cmd, pc, abi, function, text, result, log, stdin, stdin_eof, stdin_reads, call, ret>>

Running == [status |-> "running", bytes |-> <<>>, err |-> ""]
Returned(r) == [status |-> IF r.ok THEN "Ok" ELSE "Err", bytes |-> r.bytes, err |-> r.err]

Command(mode, abi_path, method_name, arg, stdin_arg) ==
    [mode |-> mode, abi_path |-> abi_path, method_name |-> method_name,
     arg |-> arg, stdin_arg |-> stdin_arg]

Modes == {"UnaryCall", "CallArgsByName"}
StdinArgs == {"None", "Some(true)", "Some(false)"}
MethodNames == {Erc20Abi[n].name : n \in 1..Len(Erc20Abi)} \cup {"burn"}

\* Argument texts for UnaryCall
UnaryTexts ==
    {"", " 1 ", "300", "-1", "1 2", "true", " True\n", "\ttrue", "yes", "ab", " a b ", "0a0b", " 0A0b", "0a",
     Addr1, " " \o AddrMixed \o "\n", "0x" \o Addr1,
     "[1,2,3]", " [1, 2] ", "[1,true,2]", "[true,false]", "[true,1,false]", "[true]", "[1,true]",
     "[1,", "[\"1\"]", "{}"}

\* Members of the JSON objects given to CallArgsByName
MemberTexts ==
    {"\"spender\":\"" \o Addr1 \o "\"", "\"amount\":\"1000\"", "\"amount\":1000",
     "\"amount\":\"1x\"", "\"flag\":\"True\"", "\"extra\":\"1\""}

NamedTexts ==
    {"{" \o t \o "}" : t \in ListsUpTo(MemberTexts, MaxMembers)}
        \cup {"", "[]", "\"flag\"", "{\"flag\":\"true\"", "{\"flag\":true}", "{\"flag\":null}",
              " { \"flag\" : \"false\" , \"x\" : [1, {\"flag\":\"true\"}] } ",
              "{\"note\":\"a \\\"b\\\"\"}", "{\"delta\":\"-1\"}", "{\"tag\":\"0a0b\"}", "{\"tag\":\"0a\"}",
              "{\"list\":\"[1,2]\"}", "{\"list\":[1,2]}", "{\"pair\":\"[true,false]\"}",
              "{\"point\":\"[7,true]\",\"z\":0}",
              "{\"spender\":\"" \o Addr1 \o "\",\"amount\":\"1000\",\"extra\":\"1\"}",
              "{\"extra\":{},\"amount\":\"1000\",\"spender\":\"" \o Addr1 \o "\"}",
              "{\"spender\":\"0x" \o Addr1 \o "\",\"amount\":\"1000\"}",
              "{\"to\":\"" \o Addr1 \o "\",\"list\":\"[1,2]\",\"flag\":\"true\"}",
              "{\"to\":\"" \o Addr1 \o "\",\"list\":\"[1,true,2]\",\"flag\":\"maybe\"}",
              "{\"to\":\"" \o Addr1 \o "\",\"list\":\"[1,2]\"}",
              "{\"to\":\"" \o Addr1 \o "\",\"amount\":\"1\",\"amount\":\"2\"}"}

StdinTexts == {"", "true\n", "{\"flag\":\"true\"}"}

\* The invocations: a command and what standard input holds.
Invocations ==
    {[cmd |-> Command("UnaryCall", "erc20.abi", f, Some(a), "None"), stdin |-> ""] :
        f \in MethodNames, a \in UnaryTexts}
    \cup {[cmd |-> Command("CallArgsByName", "erc20.abi", f, Some(a), "None"), stdin |-> ""] :
        f \in MethodNames, a \in NamedTexts}
    \cup {[cmd |-> Command(m, p, f, a, s), stdin |-> t] :
        m \in Modes, p \in {"erc20.abi"}, f \in {"setFlag", "approve", "pause", "burn"},
        a \in {None, Some(" false "), Some("{\"flag\":\"false\"}")}, s \in StdinArgs, t \in StdinTexts}
    \cup {[cmd |-> Command(m, p, "setFlag", a, s), stdin |-> "true\n"] :
        m \in Modes, p \in {"broken.abi", "missing.abi"}, a \in {None, Some("true")}, s \in StdinArgs}

NoCall == [arg |-> "", kind |-> KString]
Pending == [done |-> FALSE]

Init ==
    /\ \E inv \in Invocations : cmd = inv.cmd /\ stdin = inv.stdin
    /\ pc = 1
    /\ abi = <<>>
    /\ function = NoFunction
    /\ text = ""
    /\ result = Running
    /\ log = <<>>
    /\ stdin_eof = FALSE
    /\ stdin_reads = 0
    /\ call = NoCall
    /\ ret = Pending

Stage == IF pc <= Len(Stages(cmd.mode)) THEN Stages(cmd.mode)[pc] ELSE "return"

Active(stage) == result = Running /\ Stage = stage

\* let abi = read_abi(abi_path)?;
DoReadAbi ==
    /\ Active("read_abi")
    /\ LET r == ReadAbi(cmd.abi_path)
       IN IF r.ok
          THEN abi' = r.abi /\ pc' = pc + 1 /\ UNCHANGED result
          ELSE result' = Returned(EErr(r.err, <<>>)) /\ UNCHANGED <<abi, pc>>
    /\ UNCHANGED <<cmd, function, text, log, stdin, stdin_eof, stdin_reads, call, ret>>

\* let function = abi.function(&method_name).map_err(wrap_error)?;
DoFunction ==
    /\ Active("function")
    /\ LET r == AbiFunction(abi, cmd.method_name)
       IN IF r.ok
          THEN function' = r.function /\ pc' = pc + 1 /\ UNCHANGED result
          ELSE result' = Returned(EErr(r.err, <<>>)) /\ UNCHANGED <<function, pc>>
    /\ UNCHANGED <<cmd, abi, text, log, stdin, stdin_eof, stdin_reads, call, ret>>

\* if function.inputs.len() != 1 { return Err(...) }
DoInputsLen ==
    /\ Active("inputs_len")
    /\ IF TakesOneArgument(function)
       THEN pc' = pc + 1 /\ UNCHANGED result
       ELSE result' = Returned(EErr("Function must take only one argument", <<>>)) /\ UNCHANGED pc
    /\ UNCHANGED <<cmd, abi, function, text, log, stdin, stdin_eof, stdin_reads, call, ret>>

\* read_arg(arg, stdin_arg): read_to_string returns at end-of-stream only.
DoReadArg ==
    /\ Active("read_arg")
    /\ ReadsStdin(cmd.arg, cmd.stdin_arg) => stdin_eof
    /\ text' = ReadArg(cmd.arg, cmd.stdin_arg, stdin)
    /\ stdin_reads' = IF ReadsStdin(cmd.arg, cmd.stdin_arg) THEN stdin_reads + 1 ELSE stdin_reads
    /\ pc' = pc + 1
    /\ UNCHANGED <<cmd, abi, function, result, log, stdin, stdin_eof, call, ret>>

\* The rest of the variant's arm: parse the argument(s), encode, return.
DoEncode ==
    /\ Active("encode")
    /\ LET r == IF cmd.mode = "UnaryCall" THEN UnaryEncode(function, text)
                ELSE NamedEncode(function, text)
       IN result' = Returned(r) /\ log' = r.log
    /\ pc' = pc + 1
    /\ UNCHANGED <<cmd, abi, function, text, stdin, stdin_eof, stdin_reads, call, ret>>

\* The statements of abi_encode.
Step == DoReadAbi \/ DoFunction \/ DoInputsLen \/ DoReadArg \/ DoEncode

\* The writer of standard input closes the stream.
StdinEof ==
    /\ ~stdin_eof
    /\ stdin_eof' = TRUE
    /\ UNCHANGED <<cmd, pc, abi, function, text, result, log, stdin, stdin_reads, call, ret>>

Next == DoReadAbi \/ DoFunction \/ DoInputsLen \/ DoReadArg \/ DoEncode \/ StdinEof

Spec == Init /\ [][Next]_vars

(***************************************************************************)
(* parse_arg applied directly                                              *)
(***************************************************************************)

ParseInit ==
    /\ call \in ParseCalls
    /\ ret = Pending
    /\ cmd = Command("UnaryCall", "", "", None, "None")
    /\ pc = 1
    /\ abi = <<>>
    /\ function = NoFunction
    /\ text = ""
    /\ result = Running
    /\ log = <<>>
    /\ stdin = ""
    /\ stdin_eof = FALSE
    /\ stdin_reads = 0

CallParseArg ==
    /\ ~ret.done
    /\ LET r == ParseArg(call.arg, call.kind)
       IN ret' = [done |-> TRUE, ok |-> r.ok, tok |-> r.tok, err |-> r.err, log |-> r.log]
    /\ UNCHANGED <<call, cmd, pc, abi, function, text, result, log, stdin, stdin_eof, stdin_reads>>

ParseNext == CallParseArg

ParseSpec == ParseInit /\ [][ParseNext]_vars

(***************************************************************************)
(* Properties of parse_arg (checked under ParseSpec)                       *)
(***************************************************************************)

\* The JSON value of the call's argument
CallJson == JsonFromStr(call.arg)

IsJsonArray(r) == r.ok /\ r.v.j = "arr"

\* parse_arg of element n of the JSON array a against kind, as the code
\* hands it over
ElemParse(a, n, kind) == ParseArg(JsonToString(a[n]), kind)

\* C3 for FixedBytes(n): text that hex-decodes to other than n bytes fails
\* with the FixedBytes length error; text that decodes to exactly n bytes
\* yields a FixedBytes token holding those n bytes.
FixedBytesExact ==
    (ret.done /\ call.kind.k = "FixedBytes" /\ HexDecode(call.arg).ok) =>
        IF Len(HexDecode(call.arg).bytes) # call.kind.size
        THEN ~ret.ok /\ ret.err = "Incorrect FixedBytes length"
        ELSE /\ ret.ok
             /\ ret.tok = Token("FixedBytes", HexDecode(call.arg).bytes)
             /\ Len(ret.tok.v) = call.kind.size

\* C3 for FixedArray(elem, n): a JSON array of other than n elements always
\* fails, with the FixedArray length error when its elements all parse; an
\* array of exactly n elements that all parse yields a FixedArray token of
\* those n tokens.
FixedArrayExact ==
    (ret.done /\ call.kind.k = "FixedArray" /\ IsJsonArray(CallJson)) =>
        LET a == CallJson.v.a
            valid == \A n \in 1..Len(a) : ElemParse(a, n, call.kind.elem).ok
        IN /\ Len(a) # call.kind.size => ~ret.ok
           /\ (valid /\ Len(a) # call.kind.size) => ret.err = "Incorrect FixedArray length"
           /\ (valid /\ Len(a) = call.kind.size) =>
                 /\ ret.ok
                 /\ ret.tok.t = "FixedArray"
                 /\ Len(ret.tok.v) = call.kind.size
                 /\ \A n \in 1..Len(a) : ret.tok.v[n] = ElemParse(a, n, call.kind.elem).tok

\* C3: FixedBytes(n) and FixedArray(elem, n) accept exactly n bytes /
\* elements: any other length fails with a length error (nothing is
\* truncated or padded), exactly n succeeds with a token of length n.
C3_FixedSizeExact == FixedBytesExact /\ FixedArrayExact

\* C3 witness: a FixedArray call rejected for its length, all elements valid.
C3_Witness ==
    /\ ret.done
    /\ call.kind.k = "FixedArray"
    /\ ret.err = "Incorrect FixedArray length"
    /\ Len(CallJson.v.a) > call.kind.size

\* C4: for Tuple(fields), a JSON array whose length differs from
\* Len(fields) fails; with equal lengths the i-th element is parsed against
\* the i-th field, the parse succeeds exactly when every pair does, and the
\* result is a Tuple token of Len(fields) tokens in field order.
C4_TupleArity ==
    (ret.done /\ call.kind.k = "Tuple" /\ IsJsonArray(CallJson)) =>
        LET a == CallJson.v.a
            fields == call.kind.fields
        IN IF Len(a) # Len(fields) THEN ~ret.ok
           ELSE /\ ret.ok <=> \A n \in 1..Len(a) : ElemParse(a, n, fields[n]).ok
                /\ ret.ok =>
                     /\ ret.tok.t = "Tuple"
                     /\ Len(ret.tok.v) = Len(fields)
                     /\ \A n \in 1..Len(a) : ret.tok.v[n] = ElemParse(a, n, fields[n]).tok

\* C4 witness: a tuple call given more values than fields, rejected.
C4_Witness ==
    /\ ret.done
    /\ call.kind.k = "Tuple"
    /\ IsJsonArray(CallJson)
    /\ Len(CallJson.v.a) > Len(call.kind.fields)
    /\ Len(call.kind.fields) > 0
    /\ ~ret.ok

\* Whether token tok has the shape of kind, recursively.
RECURSIVE Mirrors(_, _)
Mirrors(tok, kind) ==
    /\ tok.t = kind.k
    /\ CASE kind.k = "FixedBytes" -> Len(tok.v) = kind.size
         [] kind.k = "Array" -> \A n \in 1..Len(tok.v) : Mirrors(tok.v[n], kind.elem)
         [] kind.k = "FixedArray" ->
               Len(tok.v) = kind.size /\ \A n \in 1..Len(tok.v) : Mirrors(tok.v[n], kind.elem)
         [] kind.k = "Tuple" ->
               /\ Len(tok.v) = Len(kind.fields)
               /\ \A n \in 1..Len(tok.v) : Mirrors(tok.v[n], kind.fields[n])
         [] OTHER -> TRUE

\* C5: whenever parse_arg succeeds the token has the variant of the kind and
\* mirrors it recursively (declared sizes, one token per field), and an
\* Array / FixedArray token holds one token per JSON element, in input order.
C5_TokenMirrorsKind ==
    (ret.done /\ ret.ok) =>
        /\ Mirrors(ret.tok, call.kind)
        /\ call.kind.k \in {"Array", "FixedArray"} =>
              /\ IsJsonArray(CallJson)
              /\ Len(ret.tok.v) = Len(CallJson.v.a)
              /\ \A n \in 1..Len(ret.tok.v) :
                    ret.tok.v[n] = ElemParse(CallJson.v.a, n, call.kind.elem).tok

\* C5 witness: a (string,uint8,bool) tuple given [1,1,true] yields a String,
\* a Uint and a Bool token, in that order.
C5_Witness ==
    /\ ret.done
    /\ call = [arg |-> "[1,1,true]", kind |-> KTuple(<<KString, KUint(8), KBool>>)]
    /\ ret.ok
    /\ ret.tok = Token("Tuple", <<Token("String", "1"), Token("Uint", "1"), Token("Bool", TRUE)>>)

\* -? digits+ : a base-10 integer literal
IsIntLiteral(t) ==
    LET from == IF Ch(t, 1) = "-" THEN 2 ELSE 1
    IN Len(t) >= from /\ \A i \in from..Len(t) : IsDigit(Ch(t, i))

\* The magnitude of an integer literal, as a canonical numeral
Magnitude(t) == Canon(IF Ch(t, 1) = "-" THEN SubSeq(t, 2, Len(t)) ELSE t)

IsNegative(t) == Ch(t, 1) = "-" /\ Magnitude(t) # "0"

\* Within the signed 256-bit range -2^255 .. 2^255 - 1
FitsInt256(t) ==
    IF IsNegative(t) THEN NumLeq(Magnitude(t), I256MaxPlus1) ELSE NumLeq(Magnitude(t), I256Max)

\* Within the unsigned 256-bit range 0 .. 2^256 - 1
FitsUint256(t) == ~IsNegative(t) /\ NumLeq(Magnitude(t), U256Max)

\* C6 (as claimed): an integer literal is accepted for Int(bits) exactly when
\* it fits the signed 256-bit container and for Uint(bits) exactly when it
\* fits the unsigned one, whatever bits is.
C6_IntLiteralRange ==
    (ret.done /\ call.kind.k \in {"Int", "Uint"} /\ IsIntLiteral(call.arg)) =>
        (ret.ok <=> IF call.kind.k = "Int" THEN FitsInt256(call.arg) ELSE FitsUint256(call.arg))

\* What a JSON element carries: the content of a string, the literal of a
\* number or boolean.
Carried(e) == IF e.j = "str" THEN e.s ELSE JsonToString(e)

\* C9 (as claimed): an element of an array of scalars parses as the value it
\* carries parses at top level: the array parse succeeds exactly when every
\* carried value parses, and yields those tokens.
C9_UniformNesting ==
    (/\ ret.done
     /\ call.kind.k = "Array"
     /\ call.kind.elem \in ScalarKinds
     /\ IsJsonArray(CallJson)
     /\ \A n \in 1..Len(CallJson.v.a) : CallJson.v.a[n].j \in {"str", "num", "bool"}) =>
        LET a == CallJson.v.a
            top(n) == ParseArg(Carried(a[n]), call.kind.elem)
        IN /\ ret.ok <=> \A n \in 1..Len(a) : top(n).ok
           /\ ret.ok => \A n \in 1..Len(a) : ret.tok.v[n] = top(n).tok

(***************************************************************************)
(* Properties of abi_encode (checked under Spec / LiveSpec)                *)
(***************************************************************************)

\* Position of a statement in the variant's arm, and whether it has executed
StagePos(stage) == CHOOSE n \in 1..Len(Stages(cmd.mode)) : Stages(cmd.mode)[n] = stage
Past(stage) == pc > StagePos(stage)

Finished == result # Running

\* C1: in UnaryCall, once the function is resolved: with 0 or >= 2 declared
\* inputs the argument is never read or parsed and the call can only end in
\* "Function must take only one argument"; with exactly 1 input the call ends
\* Ok exactly when parse_arg(trim(text), kind of that input) is Ok, with that
\* one token encoded, and otherwise ends in parse_arg's error.
C1_UnaryCall ==
    (cmd.mode = "UnaryCall" /\ Past("function")) =>
        IF Len(function.inputs) # 1
        THEN /\ ~Past("inputs_len")
             /\ Finished => result = Returned(EErr("Function must take only one argument", <<>>))
        ELSE Finished =>
                LET r == ParseArg(Trim(text), function.inputs[1].kind)
                IN /\ result.status = "Ok" <=> r.ok
                   /\ r.ok => result.bytes = <<function.name, <<r.tok>>>>
                   /\ ~r.ok => result.err = r.err

\* C1 witness: a one-input function called with text that trimming changes,
\* ending Ok.
C1_Witness ==
    /\ cmd.mode = "UnaryCall"
    /\ Len(function.inputs) = 1
    /\ result.status = "Ok"
    /\ Trim(text) # text
    /\ function.inputs[1].kind # KString

\* The object o without the fields no declared input names
Declared(o, inputs) ==
    SelectSeq(o, LAMBDA m : \E n \in 1..Len(inputs) : inputs[n].name = m.k)

\* The outcome of CallArgsByName on the JSON object o
OnObject(o) == Returned(NamedValue(function, [ok |-> TRUE, v |-> JObj(o)]))

\* C2: in CallArgsByName on a JSON object text, the outcome is the outcome on
\* the object stripped of its undeclared fields, and on the object with one
\* more undeclared field; the call fails when a declared input's field is
\* absent or not a JSON string; on success there is one token per declared
\* input, in declaration order, each parsed from that input's field.
C2_NamedArgs ==
    (/\ cmd.mode = "CallArgsByName"
     /\ Finished
     /\ Past("read_arg")
     /\ JsonFromStr(text).ok
     /\ JsonFromStr(text).v.j = "obj") =>
        LET o == JsonFromStr(text).v.o
            inputs == function.inputs
        IN /\ result = OnObject(Declared(o, inputs))
           /\ ~MapHas(o, "undeclared") => result = OnObject(MapInsert(o, "undeclared", JStr("1")))
           /\ (\E n \in 1..Len(inputs) :
                  ~MapHas(o, inputs[n].name) \/ MapGet(o, inputs[n].name).j # "str")
                 => result.status = "Err"
           /\ result.status = "Ok" =>
                 /\ result.bytes[1] = function.name
                 /\ Len(result.bytes[2]) = Len(inputs)
                 /\ \A n \in 1..Len(inputs) :
                       result.bytes[2][n] = ParseArg(MapGet(o, inputs[n].name).s, inputs[n].kind).tok

\* C2 witness: approve(spender, amount) called with an object that also has
\* an undeclared field, ending Ok with two tokens.
C2_Witness ==
    /\ cmd.mode = "CallArgsByName"
    /\ function.name = "approve"
    /\ result.status = "Ok"
    /\ JsonFromStr(text).ok
    /\ MapHas(JsonFromStr(text).v.o, "extra")
    /\ Len(result.bytes[2]) = 2

\* C7: before read_arg runs nothing has been read; after it, explicit text is
\* what it returned, unmodified, with no read of standard input whatever the
\* flag; without explicit text, flag true gives exactly one read and the
\* whole of standard input, flag false or absent gives "" and no read.
C7_ReadArg ==
    IF ~Past("read_arg") THEN stdin_reads = 0
    ELSE IF cmd.arg.some THEN text = cmd.arg.val /\ stdin_reads = 0
    ELSE IF cmd.stdin_arg = "Some(true)" THEN text = stdin /\ stdin_reads = 1
    ELSE text = "" /\ stdin_reads = 0

\* C7 witness: explicit text together with flag true; the text is returned
\* and standard input, which holds other text, is left unread.
C7_Witness ==
    /\ Past("read_arg")
    /\ cmd.arg.some
    /\ cmd.stdin_arg = "Some(true)"
    /\ stdin # ""
    /\ stdin # text
    /\ text = cmd.arg.val
    /\ stdin_reads = 0

\* parent is the kind of a parse_arg call that parses child-kind values
IsParentKind(parent, child) ==
    CASE parent.k \in {"Array", "FixedArray"} -> parent.elem = child
      [] parent.k = "Tuple" -> \E n \in 1..Len(parent.fields) : parent.fields[n] = child
      [] OTHER -> FALSE

\* C8: an error before the arguments are parsed ends the call with nothing
\* parsed; a failed parse or field lookup is followed only by the failures,
\* with the same error, of the parse_arg calls enclosing it (no later
\* element, field or input is parsed) and its error is the one returned;
\* bytes are returned only when every statement ran and every parse was Ok,
\* with one token per declared input.
C8_FailFast ==
    /\ ~Past("encode") => log = <<>>
    /\ result.status = "Err" =>
          /\ result.bytes = <<>>
          /\ log # <<>> => ~log[Len(log)].ok /\ result.err = log[Len(log)].err
    /\ \A i \in 1..(Len(log) - 1) :
          ~log[i].ok =>
              /\ ~log[i + 1].ok
              /\ log[i + 1].err = log[i].err
              /\ IsParentKind(log[i + 1].kind, log[i].kind)
    /\ result.status = "Ok" =>
          /\ Past("encode")
          /\ ReadAbi(cmd.abi_path).ok
          /\ AbiFunction(abi, cmd.method_name).ok
          /\ \A i \in 1..Len(log) : log[i].ok
          /\ Len(result.bytes[2]) = Len(function.inputs)

\* C8 witness: setList(uint256[]) given [1,true,2]: the first element parsed,
\* the second failed, the array failed, the third was never parsed.
C8_Witness ==
    /\ function.name = "setList"
    /\ Trim(text) = "[1,true,2]"
    /\ result.status = "Err"
    /\ Len(log) = 3
    /\ log[1].ok /\ log[1].arg = "1"
    /\ ~log[2].ok /\ log[2].arg = "true"
    /\ ~log[3].ok /\ log[3].kind = KArray(KUint(256))
    /\ result.err = log[2].err

\* What has to succeed before the argument is read
LoadsAndResolves ==
    /\ ReadAbi(cmd.abi_path).ok
    /\ AbiFunction(ReadAbi(cmd.abi_path).abi, cmd.method_name).ok
    /\ cmd.mode = "UnaryCall" =>
          Len(AbiFunction(ReadAbi(cmd.abi_path).abi, cmd.method_name).function.inputs) = 1

\* Standard input is read at most once, and only in an invocation whose load,
\* lookup and count check succeeded, after they did.
ReadOrder ==
    /\ stdin_reads <= 1
    /\ stdin_reads = 1 =>
          /\ LoadsAndResolves
          /\ abi = ReadAbi(cmd.abi_path).abi
          /\ function = AbiFunction(abi, cmd.method_name).function
    /\ ~LoadsAndResolves => stdin_reads = 0 /\ Stage \notin {"read_arg", "encode"}

\* Up to and including read_arg, the next statement can execute unless it is
\* the read of a standard input not yet at end-of-stream; what follows
\* read_arg is the last statement, reached with the read behind.
OnlyReadBlocks ==
    ~Finished =>
        IF Stage = "encode" THEN Past("read_arg") /\ StagePos("encode") = Len(Stages(cmd.mode))
        ELSE (ENABLED Step) <=>
                ~(Stage = "read_arg" /\ ReadsStdin(cmd.arg, cmd.stdin_arg) /\ ~stdin_eof)

\* A step of the invocation executes one statement: it moves to the next
\* one or returns; after the return nothing but the stream changes.  The
\* stream's writer only closes it.
Advances ==
    \/ ~Finished /\ ~Finished' /\ pc' = pc + 1 /\ pc' <= Len(Stages(cmd.mode))
    \/ ~Finished /\ Finished'
    \/ /\ ~stdin_eof /\ stdin_eof'
       /\ UNCHANGED <<pc, result, text, stdin_reads>>

====
